---- MODULE Spec2Model ----
(***************************************************************************)
(* A model of PathOptimizer (src/src/optimizer_package/path_optimizer.py)  *)
(* and of the wind field it is used with (src/tests/wind.py).               *)
(*                                                                         *)
(* Numbers.  The program computes in IEEE doubles; the model computes in   *)
(* fixed point, three decimal places (a value v stands for v/1000), every  *)
(* operation rounding towards minus infinity:                              *)
(*   lengths and coordinates  cm   (the one exception: a whole number of   *)
(*                                  centimetres, so that a squared         *)
(*                                  distance fits a machine integer)       *)
(*   speeds and velocities    mm/s        times        ms                  *)
(*   forces mN     powers mW     energies mJ  (and mWh after / 3600)       *)
(* Two values outside the number range stand for what a double or a call   *)
(* can be besides a number: NaN, and Raise (the call raised an exception). *)
(***************************************************************************)
EXTENDS Integers, Naturals, Sequences, FiniteSets, TLC

\* ------------------------------------------------------------ bounds
\* The largest path sample count (num_points) an instance is built with.
MaxNumPoints == 4
\* The most objective / constraint callbacks the solver issues in one solve.
MaxSolverCalls == 2

\* ------------------------------------------------------------ numbers
Milli == 10 * 100
NaN == 0 - 2000000001
Raise == 0 - 2000000002
IsNaN(a) == a = NaN
IsRaise(a) == a = Raise
IsNum(a) == a # NaN /\ a # Raise

Abs(a) == IF a < 0 THEN 0 - a ELSE a

\* floor(a * b / 1000), without an intermediate product beyond the result's size
MulNum(a, b) ==
    LET a1 == a \div Milli
        a0 == a % Milli
        b1 == b \div Milli
        b0 == b % Milli
    IN  Milli * a1 * b1 + a1 * b0 + a0 * b1 + (a0 * b0) \div Milli

\* floor(a * 1000 / c) for c # 0
DivNum(a, c) ==
    LET n == IF c < 0 THEN 0 - a ELSE a
        d == Abs(c)
    IN  (n \div d) * Milli + ((n % d) * Milli) \div d

\* What an operation on a and b yields when one of them is no number: an
\* exception already raised stays raised, and NaN is contagious.
NoNum(a, b) == IF IsRaise(a) \/ IsRaise(b) THEN Raise ELSE NaN

Mul(a, b) == IF IsNum(a) /\ IsNum(b) THEN MulNum(a, b) ELSE NoNum(a, b)
Add(a, b) == IF IsNum(a) /\ IsNum(b) THEN a + b ELSE NoNum(a, b)
Sub(a, b) == IF IsNum(a) /\ IsNum(b) THEN a - b ELSE NoNum(a, b)

\* Python float division a / c: ZeroDivisionError on a zero divisor
PyDiv(a, c) ==
    IF ~(IsNum(a) /\ IsNum(c)) THEN NoNum(a, c)
    ELSE IF c = 0 THEN Raise
    ELSE DivNum(a, c)

\* numpy float64 scalar division a / c: 0/0 is nan (a RuntimeWarning, no exception)
NpDiv(a, c) ==
    IF ~(IsNum(a) /\ IsNum(c)) THEN NoNum(a, c)
    ELSE IF c = 0 THEN NaN
    ELSE DivNum(a, c)

\* Python's max(a, b): b if b > a else a; a comparison with nan is False
PyMax(a, b) ==
    IF IsRaise(a) \/ IsRaise(b) THEN Raise
    ELSE IF IsNaN(a) \/ IsNaN(b) THEN a
    ELSE IF b > a THEN b ELSE a

RECURSIVE SqrtSearch(_, _, _)
SqrtSearch(n, lo, hi) ==
    IF lo >= hi THEN lo
    ELSE LET mid == (lo + hi + 1) \div 2
         IN  IF mid * mid <= n THEN SqrtSearch(n, mid, hi)
             ELSE SqrtSearch(n, lo, mid - 1)

\* floor of the square root of the integer n >= 0
Isqrt(n) == SqrtSearch(n, 0, 46340)

\* math.sqrt of a fixed-point value: ValueError below zero, nan for nan
Sqrt(a) ==
    IF ~IsNum(a) THEN a
    ELSE IF a < 0 THEN Raise
    ELSE Isqrt(a * Milli)

RECURSIVE RootSearch(_, _, _)
RootSearch(n, lo, hi) ==
    IF lo >= hi THEN lo
    ELSE LET mid == (lo + hi + 1) \div 2
         IN  IF mid * mid * mid * mid * mid <= n THEN RootSearch(n, mid, hi)
             ELSE RootSearch(n, lo, mid - 1)

\* r ** 0.2 for a fixed-point ratio r >= 0, to one decimal place
Pow02(r) == 100 * RootSearch(r * 100, 0, 73)

\* ------------------------------------------------------------ wind field
\* math.cos / math.sin of direction * pi / 180, for the four axis directions
\* (cos(pi/2) is 6e-17 in doubles: the 0.001 clamp below makes it 0)
Cos(direction) ==
    CASE direction = 0 -> Milli
      [] direction = 180 -> 0 - Milli
      [] OTHER -> 0

Sin(direction) ==
    CASE direction = 90 -> Milli
      [] direction = 270 -> 0 - Milli
      [] OTHER -> 0

\* a component strictly between -0.001 and 0.001 becomes 0.0
Clamp(v) == IF IsNum(v) /\ v < 1 /\ v > 0 - 1 THEN 0 ELSE v

\* Wind.get_wind_at_point: power-law profile in altitude z = position[3].
\* z is a numpy float64 here, so a negative z gives nan, not an exception.
get_wind_at_point(wind, position) ==
    LET z == position[3]
        mag == IF z < 0 THEN NaN
               ELSE Mul(wind.reference_wind, Pow02(DivNum(z, wind.z_c)))
        vx == Mul(mag, Cos(wind.direction))
        vy == Mul(mag, Sin(wind.direction))
    IN  <<Clamp(vx), Clamp(vy), 0>>

\* ------------------------------------------------------------ power model
\* math.pi
Pi == 3142

\* self.area_rotors = num_rotors * (math.pi * (prop_diameter / 2) ** 2)
AreaRotors(prop_diameter, num_rotors) ==
    LET r == prop_diameter \div 2
    IN  num_rotors * MulNum(Pi, MulNum(r, r))

\* sqrt(a^2 + b^2) of two fixed-point values
Hypot(a, b) ==
    IF ~(IsNum(a) /\ IsNum(b)) THEN NoNum(a, b)
    ELSE Isqrt(a * a + b * b)

\* P_climb = W * v_air_z whatever its sign: a descent is credited
ClimbPowerSigned(W, v_air_z) ==
    IF IsRaise(v_air_z) THEN Raise
    ELSE Mul(W, v_air_z)

\* P_climb = W * v_air_z if v_air_z > 0 else 0
ClimbPower(W, v_air_z) ==
    IF IsRaise(v_air_z) THEN Raise
    ELSE IF IsNum(v_air_z) /\ v_air_z > 0 THEN Mul(W, v_air_z)
    ELSE 0

\* PathOptimizer.power_required(v_x, v_y, v_z, position): electrical power, mW
power_required(this, v_x, v_y, v_z, position) ==
    LET v_wind == get_wind_at_point(this.wind_field, position)
        v_air_x == Sub(v_x, v_wind[1])
        v_air_y == Sub(v_y, v_wind[2])
        v_air_z == Sub(v_z, v_wind[3])
        v_h == Hypot(v_air_x, v_air_y)
        W == MulNum(this.mass, this.g)
        D == Mul(Mul(Mul(MulNum(500, this.rho), Mul(v_h, v_h)), this.CD0), this.S)
        T == Hypot(W, D)
        v_i == Sqrt(PyDiv(T, MulNum(2 * this.rho, this.area_rotors)))
        \* mu = v_h / (v_i + 1e-6): the 1e-6 is below the model's resolution and
        \* counts only when v_i is 0; mu is then the finite v_h * 1e6, and
        \* P_induced = T * 0 / sqrt(1 + mu**2) is 0 (nan when v_h is)
        mu == IF v_i = 0 THEN Mul(v_h, 0) ELSE PyDiv(v_h, v_i)
        P_induced == IF v_i = 0 THEN mu
                     ELSE PyDiv(Mul(T, v_i), Sqrt(Add(Milli, Mul(mu, mu))))
        P_profile == Mul(MulNum(150, W), v_i)
        P_parasitic == Mul(D, v_h)
        P_climb == ClimbPower(W, v_air_z)
        P_mechanical == Add(Add(Add(P_induced, P_profile), P_parasitic), P_climb)
        \* the two efficiencies are non-zero in every instance of the model, so
        \* a float's and a numpy scalar's division agree on lines 98 and 101
        P_rotor == PyDiv(P_mechanical, this.figure_of_merit)
        P_electrical == PyDiv(P_rotor, this.motor_efficiency)
    IN  PyMax(P_electrical, 0)

\* ------------------------------------------------------------ path generator
\* np.linspace(0, 1, num, endpoint=False): the last parameter falls short of 1
LinspaceOpen(num) ==
    [k \in 1..num |-> <<k - 1, num>>]

\* np.linspace(0, 1, num): num parameters, each the fraction <<a, b>> = a / b;
\* the first is 0 and, from two samples on, the last is 1
Linspace(num) ==
    [k \in 1..num |-> <<k - 1, IF num > 1 THEN num - 1 ELSE 1>>]

\* a cubic through four points whose inner weights are doubled: the weights no
\* longer add up to 1 and the curve overshoots its control points
BernsteinOvershoot(P, s) ==
    LET a == s[1]
        b == s[2]
        w == <<(b - a) * (b - a) * (b - a), 6 * (b - a) * (b - a) * a,
               6 * (b - a) * a * a, a * a * a>>
    IN  [d \in 1..3 |->
            (w[1] * P[1][d] + w[2] * P[2][d] + w[3] * P[3][d] + w[4] * P[4][d])
                \div (b * b * b)]

\* the cubic Bezier curve of four control points at the parameter a / b
Bernstein(P, s) ==
    LET a == s[1]
        b == s[2]
        w == <<(b - a) * (b - a) * (b - a), 3 * (b - a) * (b - a) * a,
               3 * (b - a) * a * a, a * a * a>>
    IN  [d \in 1..3 |->
            (w[1] * P[1][d] + w[2] * P[2][d] + w[3] * P[3][d] + w[4] * P[4][d])
                \div (b * b * b)]

\* np.linspace raises ValueError for a negative number of samples
BezierRaises(num_points) == num_points < 0

\* PathOptimizer.bezier_curve(control_points, num_points): the sampled points
bezier_curve(control_points, num_points) ==
    LET s_vals == Linspace(num_points)
    IN  [k \in 1..num_points |-> Bernstein(control_points, s_vals[k])]

\* ------------------------------------------------------------ path integrator
\* line 149: the Euclidean distance of two points
Distance(p0, p1) ==
    LET d == [k \in 1..3 |-> p1[k] - p0[k]]
    IN  10 * Isqrt(d[1] * d[1] + d[2] * d[2] + d[3] * d[3])

\* the progress fraction taken over the N - 1 segments: s = i / (N - 1)
SpeedLocalOverSegments(x, N, i) ==
    LET v_start == x[1]
        v_end == x[2]
        s == DivNum(i, IF N - 1 > 1 THEN N - 1 ELSE 1)
    IN  PyMax(1, Add(v_start, Mul(Sub(v_end, v_start), s)))

\* lines 151-154: the speed of pass i (from 0) of a path of N points,
\* s = i / max(N - 2, 1), floored at 1e-3
SpeedLocal(x, N, i) ==
    LET v_start == x[1]
        v_end == x[2]
        s == DivNum(i, IF N - 2 > 1 THEN N - 2 ELSE 1)
    IN  PyMax(1, Add(v_start, Mul(Sub(v_end, v_start), s)))

\* the loop body with line 164 asking for the power at the segment's end point
SegmentAtEndPoint(this, x, path_points, i) ==
    LET N == Len(path_points)
        p0 == path_points[i + 1]
        p1 == path_points[i + 2]
        d == [k \in 1..3 |-> p1[k] - p0[k]]
        dist == Distance(p0, p1)
        speed_local == SpeedLocal(x, N, i)
        dt == PyDiv(dist, speed_local)
        v_x == NpDiv(10 * d[1], dt)
        v_y == NpDiv(10 * d[2], dt)
        v_z == NpDiv(10 * d[3], dt)
        power == power_required(this, v_x, v_y, v_z, p1)
    IN  [dt |-> dt, power |-> power, E_segment_J |-> Mul(power, dt)]

\* One pass of compute_path's loop body (i counts from 0 as in the source):
\* everything it computes for the segment from path_points[i] to path_points[i+1]
Segment(this, x, path_points, i) ==
    LET N == Len(path_points)
        p0 == path_points[i + 1]
        p1 == path_points[i + 2]
        d == [k \in 1..3 |-> p1[k] - p0[k]]
        dist == Distance(p0, p1)
        speed_local == SpeedLocal(x, N, i)
        dt == PyDiv(dist, speed_local)
        v_x == NpDiv(10 * d[1], dt)
        v_y == NpDiv(10 * d[2], dt)
        v_z == NpDiv(10 * d[3], dt)
        power == power_required(this, v_x, v_y, v_z, p0)
    IN  [dt |-> dt, power |-> power, E_segment_J |-> Mul(power, dt)]

\* control_points = [self.start_point, point1, point2, self.end_point]
ControlPoints(this, x) ==
    <<this.start_point, <<x[3], x[4], x[5]>>, <<x[6], x[7], x[8]>>, this.end_point>>


\* ------------------------------------------------------------ construction
\* self.g = 9.81
g == 9810

\* PathOptimizer.__init__: every argument is stored as given, nothing is
\* checked; area_rotors is derived and max_power_encountered starts at 0
\* (the variable max_power_encountered below)
Construct(args) ==
    [g |-> g,
     rho |-> args.rho, S |-> args.S, CD0 |-> args.CD0, mass |-> args.mass,
     battery_capacity_Wh |-> args.battery_capacity_Wh,
     motor_power_limit_W |-> args.motor_power_limit_W,
     motor_efficiency |-> args.motor_efficiency,
     battery_efficiency |-> args.battery_efficiency,
     figure_of_merit |-> args.figure_of_merit,
     prop_diameter |-> args.prop_diameter, num_rotors |-> args.num_rotors,
     area_rotors |-> AreaRotors(args.prop_diameter, args.num_rotors),
     wind_field |-> args.wind_field,
     start_point |-> args.start_point, end_point |-> args.end_point,
     max_time |-> args.max_time, num_points |-> args.num_points,
     VERBOSE |-> args.VERBOSE]

\* ------------------------------------------------------------ inputs
\* The drone of the repository's tests (src/tests/simple_test.py), on missions
\* a fiftieth of the tests' 1000 m leg, with limits (0.124 Wh, 264.609 W, 1 s)
\* that the design vectors below fall on both sides of, and some exactly on.
Calm == [z_c |-> 20000, direction |-> 0, reference_wind |-> 0]
Headwind == [z_c |-> 20000, direction |-> 180, reference_wind |-> 5000]

Origin == <<0, 0, 0>>
Climb == [start_point |-> Origin, end_point |-> <<2000, 0, 400>>]
Hover == [start_point |-> Origin, end_point |-> Origin]
Descent == [start_point |-> <<1000, 500, 1000>>, end_point |-> Origin]
Cruise == [start_point |-> <<0, 0, 5000>>, end_point |-> <<2000, 0, 6000>>]

Drone(mission, num_points, wind_field, VERBOSE) ==
    [rho |-> 1225, S |-> 20, CD0 |-> 1100, mass |-> 1600,
     battery_capacity_Wh |-> 124, motor_power_limit_W |-> 264609,
     motor_efficiency |-> 850, battery_efficiency |-> 900,
     figure_of_merit |-> 700, prop_diameter |-> 200, num_rotors |-> 4,
     wind_field |-> wind_field,
     start_point |-> mission.start_point, end_point |-> mission.end_point,
     max_time |-> 1000, num_points |-> num_points, VERBOSE |-> VERBOSE]

ValidArgs ==
    {Drone(Climb, n, Calm, FALSE) : n \in 2..MaxNumPoints}
    \cup {Drone(Hover, 3, Headwind, TRUE), Drone(Descent, 2, Headwind, TRUE),
          Drone(Cruise, 2, Calm, FALSE)}

\* arguments with and without what __init__ is asked to reject: a non-positive
\* mass, density or rotor disk area, fewer than two samples
CtorArgs ==
    LET ok == Drone(Climb, 2, Calm, FALSE)
    IN  {ok}
        \cup {[ok EXCEPT !.num_points = n] : n \in {0 - 1, 0, 1}}
        \cup {[ok EXCEPT !.mass = m] : m \in {0 - 1600, 0}}
        \cup {[ok EXCEPT !.rho = r] : r \in {0 - 1225, 0}}
        \cup {[ok EXCEPT !.prop_diameter = 0], [ok EXCEPT !.num_rotors = 0],
              [ok EXCEPT !.num_rotors = 0 - 4]}

Instances == {Construct(a) : a \in ValidArgs}

\* x = [speed_start, speed_end, point1_x, point1_y, point1_z, point2_x, point2_y,
\* point2_z]: both control points on the origin, or on the arc that is Climb's
\* initial guess, at a constant or a rising speed
Vector(v_start, v_end, point1, point2) ==
    <<v_start, v_end, point1[1], point1[2], point1[3], point2[1], point2[2], point2[3]>>
DesignVectors ==
    {Vector(15000, 15000, Origin, Origin),
     Vector(15000, 15000, <<666, 0, 2400>>, <<1333, 0, 2400>>),
     Vector(15000, 30000, <<666, 0, 2400>>, <<1333, 0, 2400>>)}


\* straight_line_x of the tests: the speeds of x, the free control points on the
\* start and the end point
StraightLine(this, x) == Vector(x[1], x[2], this.start_point, this.end_point)

\* ------------------------------------------------------------ state
VARIABLES
    self,                   \* the instance's fields as __init__ set them
    path_table,             \* Tabulate(self): the paths of the design vectors
    max_power_encountered,  \* self.max_power_encountered
    pc,                     \* "new": not constructed; "idle"; "minimize": inside
                            \* optimize_mission's call of the solver
    call,                   \* the last public method call that returned or raised
    first,                  \* the first compute_path call and what it returned,
                            \* and whether another design vector was evaluated since
    solver,                 \* what optimize_mission handed the solver
    out,                    \* what the last optimize_mission call did and returned
    ev                      \* concurrent evaluations in progress (SpecConc)

vars == <<self, path_table, max_power_encountered, pc, call, first, solver, out, ev>>

\* ------------------------------------------------------------ evaluation
\* compute_path, lines 136-164: the sampled path of x and what the loop body
\* computes for each of its N - 1 segments (segs[i + 1] is the source's pass i).
\* These depend on the constructor's fields and x alone.
PathOf(this, x) ==
    LET path_points == bezier_curve(ControlPoints(this, x), this.num_points)
    IN  IF BezierRaises(this.num_points)
        THEN [raised |-> TRUE, path_points |-> <<>>, segs |-> <<>>]
        ELSE [raised |-> FALSE, path_points |-> path_points,
              segs |-> [k \in 1..(Len(path_points) - 1) |->
                           Segment(this, x, path_points, k - 1)]]

\* PathOf for every design vector of the model: the variable path_table holds
\* this table for the instance, so that no action computes a path twice
Tabulate(this) == [x \in DesignVectors |-> PathOf(this, x)]

\* compute_path with line 127 reading instance state: the energy starts from
\* what the last evaluation left in the peak field
StartFromStaleState(peak) ==
    [E_total_J |-> peak, time_total |-> 0, max_power_encountered |-> 0,
     raised |-> FALSE]

\* compute_path without line 129: the peak field keeps its old value
StartKeepingPeak(peak) ==
    [E_total_J |-> 0, time_total |-> 0, max_power_encountered |-> peak,
     raised |-> FALSE]

\* lines 127-129: what the accumulators start an evaluation with; the peak is
\* the instance's field, whose old value is peak
StartAccumulators(peak) ==
    [E_total_J |-> 0, time_total |-> 0, max_power_encountered |-> 0,
     raised |-> FALSE]

\* the loop body with line 174 an assignment: the time of the last segment only
LoopBodyLastTime(acc, sg) ==
    IF IsRaise(sg.power) \/ IsRaise(sg.dt)
    THEN [acc EXCEPT !.raised = TRUE]
    ELSE [E_total_J |-> Add(acc.E_total_J, sg.E_segment_J),
          time_total |-> sg.dt,
          max_power_encountered |-> PyMax(acc.max_power_encountered, sg.power),
          raised |-> FALSE]

\* lines 164-174: the loop body's updates, given the segment's power and dt.
\* An exception in power_required leaves the accumulators as they are.
LoopBody(acc, sg) ==
    IF IsRaise(sg.power) \/ IsRaise(sg.dt)
    THEN [acc EXCEPT !.raised = TRUE]
    ELSE [E_total_J |-> Add(acc.E_total_J, sg.E_segment_J),
          time_total |-> Add(acc.time_total, sg.dt),
          max_power_encountered |-> PyMax(acc.max_power_encountered, sg.power),
          raised |-> FALSE]

RECURSIVE Loop(_, _, _)
Loop(segs, k, acc) ==
    IF k > Len(segs) \/ acc.raised THEN acc
    ELSE Loop(segs, k + 1, LoopBody(acc, segs[k]))

\* PathOptimizer.compute_path(x) on the instance this, whose peak field holds
\* peak: the returned E_total_J, time_total, path_points, and the peak field after
compute_path(this, peak, x) ==
    LET p == path_table[x]
        start == StartAccumulators(peak)
        acc == IF p.raised THEN [start EXCEPT !.raised = TRUE]
               ELSE Loop(p.segs, 1, start)
    IN  [E_total_J |-> acc.E_total_J, time_total |-> acc.time_total,
         path_points |-> p.path_points,
         max_power_encountered |-> acc.max_power_encountered,
         raised |-> acc.raised]


\* E_total_J / 3600; a quotient by a whole number
DivInt(a, k) == IF IsNum(a) THEN a \div k ELSE a

\* safety_factor = 0.80
safety_factor == 800

None == <<>>
Some(v) == <<v>>

NoCall == [op |-> "none", x |-> None, ret |-> None, raised |-> FALSE]
NoSolver == [x0 |-> None, bounds |-> None, maxiter |-> 0, minimize_calls |-> 0,
             callbacks |-> 0]
NoOut == [returned |-> FALSE, raised |-> FALSE, success |-> FALSE,
          message |-> "", x |-> None, ret |-> None, printed |-> None,
          path_evaluations |-> 0]
Unconstructed == [num_points |-> 0]

\* ------------------------------------------------------------ sequential use
Init ==
    /\ self \in Instances
    /\ path_table = Tabulate(self)
    /\ max_power_encountered = 0
    /\ pc = "idle"
    /\ call = NoCall
    /\ first = None
    /\ solver = NoSolver
    /\ out = NoOut
    /\ ev = <<>>

\* A caller may invoke a method when no solve is running; the solver invokes
\* the objective and the constraints while it runs, in an order of its own.
Callable == pc = "idle" \/ (pc = "minimize" /\ solver.callbacks < MaxSolverCalls)
Counted ==
    IF pc = "minimize" THEN [solver EXCEPT !.callbacks = @ + 1] ELSE solver

Returned(op, x, r, value) ==
    [op |-> op, x |-> x, ret |-> IF r.raised THEN None ELSE value,
     raised |-> r.raised]

\* What is remembered of the first compute_path call c, and what an evaluation
\* of x leaves of it
Remember(c) ==
    [op |-> c.op, x |-> c.x, ret |-> c.ret, raised |-> c.raised, between |-> FALSE]
Noted(x) ==
    IF first # None /\ first[1].x # x
    THEN Some([first[1] EXCEPT !.between = TRUE])
    ELSE first

\* d1.compute_path(x), called directly (src/tests/simple_test.py:101)
compute_path_call(x) ==
    /\ pc = "idle"
    /\ LET r == compute_path(self, max_power_encountered, x)
           c == Returned("compute_path", x, r,
                         <<r.E_total_J, r.time_total, r.path_points>>)
       IN  /\ max_power_encountered' = r.max_power_encountered
           /\ call' = c
           /\ first' = IF first = None THEN Some(Remember(c)) ELSE Noted(x)
    /\ UNCHANGED <<self, path_table, pc, solver, out, ev>>

\* objective_function(x): e of compute_path(x)
objective_function(x) ==
    /\ Callable
    /\ LET r == compute_path(self, max_power_encountered, x)
       IN  /\ max_power_encountered' = r.max_power_encountered
           /\ call' = Returned("objective_function", x, r, <<r.E_total_J>>)
    /\ solver' = Counted
    /\ first' = Noted(x)
    /\ UNCHANGED <<self, path_table, pc, out, ev>>

\* constraint_battery with the battery's efficiency applied to its capacity
BatteryMarginDelivered(this, E_total_J) ==
    LET E_total_Wh == DivInt(E_total_J, 3600)
        usable == MulNum(MulNum(this.battery_capacity_Wh, safety_factor),
                         this.battery_efficiency)
    IN  Sub(usable, E_total_Wh)

\* constraint_battery without line 185: Joules taken for watt-hours
BatteryMarginOfJoules(this, E_total_J) ==
    Sub(MulNum(this.battery_capacity_Wh, safety_factor), E_total_J)

\* the value constraint_battery returns for the energy E_total_J
BatteryMargin(this, E_total_J) ==
    LET E_total_Wh == DivInt(E_total_J, 3600)
    IN  Sub(MulNum(this.battery_capacity_Wh, safety_factor), E_total_Wh)

constraint_battery(x) ==
    /\ Callable
    /\ LET r == compute_path(self, max_power_encountered, x)
       IN  /\ max_power_encountered' = r.max_power_encountered
           /\ call' = Returned("constraint_battery", x, r,
                               <<BatteryMargin(self, r.E_total_J)>>)
    /\ solver' = Counted
    /\ first' = Noted(x)
    /\ UNCHANGED <<self, path_table, pc, out, ev>>

\* the value constraint_motor_power returns when the peak field holds peak
PowerMargin(this, peak) == Sub(this.motor_power_limit_W, peak)

constraint_motor_power(x) ==
    /\ Callable
    /\ LET r == compute_path(self, max_power_encountered, x)
       IN  /\ max_power_encountered' = r.max_power_encountered
           /\ call' = Returned("constraint_motor_power", x, r,
                               <<PowerMargin(self, r.max_power_encountered)>>)
    /\ solver' = Counted
    /\ first' = Noted(x)
    /\ UNCHANGED <<self, path_table, pc, out, ev>>

\* the value constraint_time returns for the total time
TimeMargin(this, time) == Sub(this.max_time, time)

constraint_time(x) ==
    /\ Callable
    /\ LET r == compute_path(self, max_power_encountered, x)
       IN  /\ max_power_encountered' = r.max_power_encountered
           /\ call' = Returned("constraint_time", x, r,
                               <<TimeMargin(self, r.time_total)>>)
    /\ solver' = Counted
    /\ first' = Noted(x)
    /\ UNCHANGED <<self, path_table, pc, out, ev>>

Evaluate ==
    \E x \in DesignVectors :
        \/ objective_function(x)
        \/ constraint_battery(x)
        \/ constraint_motor_power(x)
        \/ constraint_time(x)

\* ------------------------------------------------------------ optimize_mission
\* lines 202-209: x0 = [15.0, 15.0] and the two control points at 1/3 and 2/3 of
\* the start-to-end line in x and y, z = max(z_start, z_end) + 20
GuessPoint(this, point) ==
    LET coord(i) == this.start_point[i]
                    + ((this.end_point[i] - this.start_point[i]) * (point + 1)) \div 3
        z == (IF this.start_point[3] > this.end_point[3]
              THEN this.start_point[3] ELSE this.end_point[3]) + 2000
    IN  <<coord(1), coord(2), z>>

InitialGuess(this) ==
    LET p1 == GuessPoint(this, 0)
        p2 == GuessPoint(this, 1)
    IN  <<15000, 15000, p1[1], p1[2], p1[3], p2[1], p2[2], p2[3]>>

Min2(a, b) == IF a < b THEN a ELSE b
Max2(a, b) == IF a > b THEN a ELSE b

\* the bounds without the floor of lines 222 and 227: z from z_min - 40
BoundsBelowGround(this) ==
    LET xy(i) == <<Min2(this.start_point[i], this.end_point[i]) - 4000,
                   Max2(this.start_point[i], this.end_point[i]) + 4000>>
    IN  <<<<15000, 30000>>, <<15000, 30000>>,
          xy(1), xy(2), xy(3),
          xy(1), xy(2), xy(3)>>

\* lines 213-231: the eight (lower, upper) bounds, in design-vector order
Bounds(this) ==
    LET z_start == this.start_point[3]
        z_end == this.end_point[3]
        z_min == Min2(z_start, z_end)
        z_max == Max2(z_start, z_end)
        xy(i) == <<Min2(this.start_point[i], this.end_point[i]) - 4000,
                   Max2(this.start_point[i], this.end_point[i]) + 4000>>
        z == <<Max2(0, z_min - 4000), z_max + 4000>>
    IN  <<<<15000, 30000>>, <<15000, 30000>>,
          xy(1), xy(2), z,
          xy(1), xy(2), z>>

\* options = {'disp': False, 'maxiter': 500}
maxiter == 500

\* line 249 without the conversion: the energy returned in Joules
TotalEnergyJoules(e_J) == e_J

\* line 249: total_E_Wh = e_J / 3600
TotalEnergyWh(e_J) == DivInt(e_J, 3600)

\* What the solver may hand back: any design vector, as a success or as a
\* failure with one of SLSQP's messages.  result.success is a Python bool or a
\* numpy.bool_, as the installed scipy has it (the repository pins no version).
FailureMessages == {"Iteration limit reached", "Inequality constraints incompatible"}
SuccessTypes == {"bool", "numpy.bool_"}
SolverResults ==
    {[success |-> TRUE, success_type |-> t, x |-> x,
      message |-> "Optimization terminated successfully"] :
        x \in DesignVectors, t \in SuccessTypes}
    \cup {[success |-> FALSE, success_type |-> t, x |-> x, message |-> m] :
            x \in DesignVectors, m \in FailureMessages, t \in SuccessTypes}

\* line 245, result.success is False: an identity test, which only the bool
\* False passes
IsFalse(result) == result.success_type = "bool" /\ result.success = FALSE

\* optimize_mission, lines 200-243: build x0, bounds, constraints and options,
\* and call minimize
optimize_mission_solve ==
    /\ pc = "idle"
    /\ pc' = "minimize"
    /\ solver' = [x0 |-> Some(InitialGuess(self)), bounds |-> Some(Bounds(self)),
                  maxiter |-> maxiter, minimize_calls |-> 1, callbacks |-> 0]
    /\ out' = NoOut
    /\ UNCHANGED <<self, path_table, max_power_encountered, call, first, ev>>

\* lines 245-246 and 278 when result.success is False: print, return four Nones
FailureReport(result) ==
    [returned |-> TRUE, raised |-> FALSE, success |-> FALSE,
     message |-> result.message, x |-> None,
     ret |-> <<None, None, None, None>>,
     printed |-> <<"Optimization failed:", result.message>>,
     path_evaluations |-> 0]

\* lines 248-277 otherwise (a success, or a failure whose success is no bool):
\* evaluate the path at result.x, and with VERBOSE
\* print the report, whose three margins each evaluate the path again
SuccessReport(this, peak, result) ==
    LET r == compute_path(this, peak, result.x)
        total_E_Wh == TotalEnergyWh(r.E_total_J)
        b == compute_path(this, r.max_power_encountered, result.x)
        m == compute_path(this, b.max_power_encountered, result.x)
        t == compute_path(this, m.max_power_encountered, result.x)
        margins == <<BatteryMargin(this, b.E_total_J),
                     PowerMargin(this, m.max_power_encountered),
                     TimeMargin(this, t.time_total)>>
    IN  [returned |-> ~r.raised, raised |-> r.raised, success |-> result.success,
         message |-> result.message, x |-> Some(result.x),
         ret |-> IF r.raised THEN None
                 ELSE <<Some(result), Some(r.time_total), Some(total_E_Wh),
                        Some(r.path_points)>>,
         printed |-> IF this.VERBOSE /\ ~r.raised
                     THEN <<"OPTIMIZATION RESULTS", r.time_total, total_E_Wh, margins>>
                     ELSE None,
         path_evaluations |-> IF this.VERBOSE /\ ~r.raised THEN 4 ELSE 1,
         peak |-> IF this.VERBOSE /\ ~r.raised THEN t.max_power_encountered
                  ELSE r.max_power_encountered]

\* minimize returns result; optimize_mission runs to its return
optimize_mission_return(result) ==
    /\ pc = "minimize"
    /\ pc' = "idle"
    /\ IF IsFalse(result)
       THEN /\ out' = FailureReport(result)
            /\ UNCHANGED <<max_power_encountered, first>>
       ELSE LET rep == SuccessReport(self, max_power_encountered, result)
            IN  /\ out' = [f \in DOMAIN NoOut |-> rep[f]]
                /\ max_power_encountered' = rep.peak
                /\ first' = Noted(result.x)
    /\ UNCHANGED <<self, path_table, call, solver, ev>>

Next ==
    \/ \E x \in DesignVectors : compute_path_call(x)
    \/ Evaluate
    \/ optimize_mission_solve
    \/ \E result \in SolverResults : optimize_mission_return(result)

Spec == Init /\ [][Next]_vars

\* ------------------------------------------------------------ construction
InitCtor ==
    /\ self = Unconstructed
    /\ path_table = <<>>
    /\ max_power_encountered = 0
    /\ pc = "new"
    /\ call = NoCall
    /\ first = None
    /\ solver = NoSolver
    /\ out = NoOut
    /\ ev = <<>>

\* PathOptimizer(...): __init__ runs to its end whatever the arguments
init(args) ==
    /\ pc = "new"
    /\ pc' = "idle"
    /\ self' = Construct(args)
    /\ path_table' = Tabulate(Construct(args))
    /\ max_power_encountered' = 0
    /\ UNCHANGED <<call, first, solver, out, ev>>

NextCtor ==
    \/ \E args \in CtorArgs : init(args)
    \/ \E x \in DesignVectors : compute_path_call(x)
    \/ Evaluate

SpecCtor == InitCtor /\ [][NextCtor]_vars

\* ------------------------------------------------------------ problem setup
\* optimize_mission up to its call of minimize, on missions of every kind of
\* start/end pair: either point above, on or below the ground (z is up, the
\* ground is z = 0), the end point on either side of the start point
Altitudes == {0 - 6000, 0 - 3000, 0, 5000}
SetupMissions ==
    {[start_point |-> <<0, 0, z_start>>, end_point |-> <<x_end, y_end, z_end>>] :
        z_start \in Altitudes, x_end \in {0 - 2000, 0, 2000},
        y_end \in {0, 500}, z_end \in Altitudes}
SetupInstances == {Construct(Drone(mission, 2, Calm, FALSE)) : mission \in SetupMissions}

InitSetup ==
    /\ self \in SetupInstances
    /\ path_table = <<>>
    /\ max_power_encountered = 0
    /\ pc = "idle"
    /\ call = NoCall
    /\ first = None
    /\ solver = NoSolver
    /\ out = NoOut
    /\ ev = <<>>

NextSetup == optimize_mission_solve

SpecSetup == InitSetup /\ [][NextSetup]_vars

\* ------------------------------------------------------------ interleaving
\* Two evaluations on one instance, interleaved between loop passes: each has
\* its own locals (x, the index k of its next segment, E_total_J, time_total)
\* and both use the instance's one max_power_encountered field.
Evaluations == 1..2

InitConc ==
    /\ self \in Instances
    /\ path_table = Tabulate(self)
    /\ max_power_encountered = 0
    /\ pc = "idle"
    /\ call = NoCall
    /\ first = None
    /\ solver = NoSolver
    /\ out = NoOut
    /\ ev = [e \in Evaluations |->
                [pc |-> "ready", x |-> None, k |-> 0, E_total_J |-> 0,
                 time_total |-> 0, peak |-> None]]

\* lines 127-141: the evaluation's entry, up to the loop
ev_begin(e, x) ==
    /\ ev[e].pc = "ready"
    /\ LET start == StartAccumulators(max_power_encountered)
       IN  /\ max_power_encountered' = start.max_power_encountered
           /\ ev' = [ev EXCEPT ![e] =
                        [pc |-> "loop", x |-> Some(x), k |-> 1,
                         E_total_J |-> start.E_total_J,
                         time_total |-> start.time_total, peak |-> None]]
    /\ UNCHANGED <<self, path_table, pc, call, first, solver, out>>

\* lines 144-174: one pass of the loop
ev_segment(e) ==
    /\ ev[e].pc = "loop"
    /\ LET segs == path_table[ev[e].x[1]].segs
           acc == LoopBody([E_total_J |-> ev[e].E_total_J,
                            time_total |-> ev[e].time_total,
                            max_power_encountered |-> max_power_encountered,
                            raised |-> FALSE], segs[ev[e].k])
       IN  /\ ev[e].k <= Len(segs)
           /\ max_power_encountered' = acc.max_power_encountered
           /\ ev' = [ev EXCEPT ![e].k = @ + 1,
                               ![e].E_total_J = acc.E_total_J,
                               ![e].time_total = acc.time_total]
    /\ UNCHANGED <<self, path_table, pc, call, first, solver, out>>

\* lines 176 and 192: compute_path returns and constraint_motor_power reads
\* the peak field
ev_return(e) ==
    /\ ev[e].pc = "loop"
    /\ ev[e].k > Len(path_table[ev[e].x[1]].segs)
    /\ ev' = [ev EXCEPT ![e].pc = "done", ![e].peak = Some(max_power_encountered)]
    /\ UNCHANGED <<self, path_table, max_power_encountered, pc, call, first, solver, out>>

NextConc ==
    \E e \in Evaluations :
        \/ \E x \in DesignVectors : ev_begin(e, x)
        \/ ev_segment(e)
        \/ ev_return(e)

SpecConc == InitConc /\ [][NextConc]_vars

\* ------------------------------------------------------------ one evaluation
\* compute_path followed pass by pass, on more instances and design vectors
\* than the solver is given above.
\* A one-metre mission, short enough for a path flown at the 1e-3 m/s floor to
\* keep its time and energy within the number range:
Hop == [start_point |-> Origin, end_point |-> <<60, 0, 80>>]

PathArgs ==
    ValidArgs \cup {Drone(Hop, n, Headwind, FALSE) : n \in 2..MaxNumPoints}
PathInstances == {Construct(a) : a \in PathArgs}

\* the design vectors above; the straight line at equal and at rising speeds;
\* an arc below the ground; on the short mission, zero and negative speeds
PathVectors(this) ==
    DesignVectors
    \cup {StraightLine(this, v) :
            v \in {<<15000, 15000>>, <<20000, 20000>>, <<15000, 30000>>}}
    \cup {Vector(15000, 15000, <<666, 0, 0 - 2400>>, <<1333, 0, 0 - 2400>>)}
    \cup (IF this.end_point = Hop.end_point
          THEN {StraightLine(this, v) : v \in {<<0, 0>>, <<0 - 5000, 15000>>}}
          ELSE {})

\* power_required's arguments: v_x, v_y, v_z and the position
PowerQueries ==
    {<<v_x, 0, v_z, position>> :
        v_x \in {0, 15000}, v_z \in {0 - 3000, 0, 2000, 5000},
        position \in {Origin, <<0, 0, 2000>>}}

Ready == [pc |-> "ready", x |-> None, k |-> 0, E_total_J |-> 0, time_total |-> 0,
          last |-> None]

InitPath ==
    /\ self \in PathInstances
    /\ path_table = [x \in PathVectors(self) |-> PathOf(self, x)]
    /\ max_power_encountered = 0
    /\ pc = "idle"
    /\ call = NoCall
    /\ first = None
    /\ solver = NoSolver
    /\ out = NoOut
    /\ ev = Ready

\* lines 127-141: compute_path(x) up to its loop
path_begin(x) ==
    /\ ev.pc = "ready"
    /\ LET start == StartAccumulators(max_power_encountered)
       IN  /\ max_power_encountered' = start.max_power_encountered
           /\ ev' = [pc |-> "loop", x |-> Some(x), k |-> 1,
                     E_total_J |-> start.E_total_J,
                     time_total |-> start.time_total, last |-> None]
    /\ UNCHANGED <<self, path_table, pc, call, first, solver, out>>

\* lines 144-174: pass i = k - 1 of the loop; last keeps what the pass used
\* and the accumulators it found
path_segment ==
    /\ ev.pc = "loop"
    /\ LET x == ev.x[1]
           p == path_table[x]
           before == [E_total_J |-> ev.E_total_J, time_total |-> ev.time_total,
                      max_power_encountered |-> max_power_encountered,
                      raised |-> FALSE]
           acc == LoopBody(before, p.segs[ev.k])
       IN  /\ ev.k <= Len(p.segs)
           /\ IF acc.raised
              THEN /\ ev' = Ready
                   /\ call' = Returned("compute_path", x, acc, None)
                   /\ UNCHANGED max_power_encountered
              ELSE /\ max_power_encountered' = acc.max_power_encountered
                   /\ ev' = [ev EXCEPT
                                !.k = @ + 1,
                                !.E_total_J = acc.E_total_J,
                                !.time_total = acc.time_total,
                                !.last = Some(
                                    [i |-> ev.k - 1,
                                     position |-> p.path_points[ev.k],
                                     speed_local |->
                                        SpeedLocal(x, Len(p.path_points), ev.k - 1),
                                     dt |-> p.segs[ev.k].dt,
                                     power |-> p.segs[ev.k].power,
                                     E_total_J |-> before.E_total_J,
                                     time_total |-> before.time_total,
                                     max_power_encountered |->
                                        before.max_power_encountered])]
                   /\ UNCHANGED call
    /\ UNCHANGED <<self, path_table, pc, first, solver, out>>

\* line 176: return E_total_J, time_total, path_points
path_return ==
    /\ ev.pc = "loop"
    /\ LET x == ev.x[1]
           p == path_table[x]
       IN  /\ ev.k > Len(p.segs)
           /\ call' = [op |-> "compute_path", x |-> x,
                       ret |-> <<ev.E_total_J, ev.time_total, p.path_points>>,
                       raised |-> FALSE]
    /\ ev' = [ev EXCEPT !.pc = "ready"]
    /\ UNCHANGED <<self, path_table, max_power_encountered, pc, first, solver, out>>

\* power_required(v_x, v_y, v_z, position), called on its own
power_query(q) ==
    /\ ev.pc = "ready"
    /\ LET P == power_required(self, q[1], q[2], q[3], q[4])
       IN  call' = [op |-> "power_required", x |-> q,
                    ret |-> IF IsRaise(P) THEN None ELSE <<P>>,
                    raised |-> IsRaise(P)]
    /\ UNCHANGED <<self, path_table, max_power_encountered, pc, first, solver, out, ev>>

NextPath ==
    \/ \E x \in DOMAIN path_table : path_begin(x)
    \/ path_segment
    \/ path_return

SpecPath == InitPath /\ [][NextPath]_vars

\* power_required alone, on the same instances
InitPower ==
    /\ self \in PathInstances
    /\ path_table = <<>>
    /\ max_power_encountered = 0
    /\ pc = "idle"
    /\ call = NoCall
    /\ first = None
    /\ solver = NoSolver
    /\ out = NoOut
    /\ ev = Ready

NextPower == \E q \in PowerQueries : power_query(q)

SpecPower == InitPower /\ [][NextPower]_vars

\* ------------------------------------------------------------ claims
\* C1 (SpecConc): when two evaluations on one instance are interleaved segment
\* by segment, the peak power each reports is the maximum segment power of its
\* own design vector.
C1_PeakScopedToEvaluation ==
    \A e \in DOMAIN ev :
        (ev[e].pc = "done" /\ \A o \in DOMAIN ev \ {e} : ev[o].x # ev[e].x) =>
            LET segs == path_table[ev[e].x[1]].segs
                P == {segs[k].power : k \in DOMAIN segs} \ {NaN, Raise}
                own == IF P = {} THEN 0 ELSE CHOOSE m \in P : \A q \in P : q <= m
            IN  ev[e].peak = Some(own)

\* C2 (Spec): in sequential use, after any earlier evaluations of any design
\* vectors, constraint_motor_power(x) returns motor_power_limit_W minus the
\* maximum segment power of x's own path.
C2_PowerMarginOfOwnPath ==
    call.op = "constraint_motor_power" =>
        LET segs == path_table[call.x].segs
            P == {segs[k].power : k \in DOMAIN segs} \ {NaN, Raise}
            own == IF P = {} THEN 0 ELSE CHOOSE m \in P : \A q \in P : q <= m
        IN  /\ ~call.raised
            /\ call.ret = <<self.motor_power_limit_W - own>>

\* C2's case: the margin of x is asked for after a design vector of a higher
\* peak was evaluated, and is x's own
C2_Witness ==
    /\ call.op = "constraint_motor_power"
    /\ first # None
    /\ first[1].x # call.x
    /\ LET r == compute_path(self, 0, call.x)
           f == compute_path(self, 0, first[1].x)
       IN  /\ f.max_power_encountered > r.max_power_encountered
           /\ r.max_power_encountered > 0
           /\ call.ret = <<self.motor_power_limit_W - r.max_power_encountered>>

\* C3 (Spec): when the start point equals the end point, an evaluation yields no
\* NaN and no division by zero, and reports zero length, time and energy.
C3_DegenerateGeometryIsZero ==
    (self.start_point = self.end_point /\ call.op = "compute_path") =>
        /\ ~call.raised
        /\ call.ret[1] = 0
        /\ call.ret[2] = 0
        /\ \A k \in DOMAIN call.ret[3] : call.ret[3][k] = self.start_point

\* C4 (SpecCtor): a configuration with a non-positive mass, air density or
\* rotor disk area (prop diameter or rotor count <= 0), or with fewer than two
\* path samples, is rejected at construction, so no evaluation runs on one.
C4_InvalidConfigurationRejected ==
    call.op # "none" =>
        /\ self.mass > 0
        /\ self.rho > 0
        /\ self.prop_diameter > 0
        /\ self.num_rotors > 0
        /\ self.area_rotors > 0
        /\ self.num_points >= 2

\* C5 (Spec): when the solver reports failure, optimize_mission returns a
\* failure result that carries the solver's message, raises nothing, and has
\* called the solver exactly once.
C5_FailureResultCarriesMessage ==
    (out.returned /\ ~out.success) =>
        /\ ~out.raised
        /\ solver.minimize_calls = 1
        /\ out.ret[1] # None
        /\ out.ret[1][1].message = out.message

\* C6 (Spec): two compute_path evaluations of one design vector on one
\* instance return the same energy, time and path points, whatever was
\* evaluated before or between them.
C6_ComputePathDeterministic ==
    (call.op = "compute_path" /\ first # None /\ first[1].x = call.x) =>
        /\ call.raised = first[1].raised
        /\ call.ret = first[1].ret

\* C6's case: a design vector is evaluated, then another one, then the first
\* again (by direct calls: no solve has run), with a positive energy
C6_Witness ==
    /\ call.op = "compute_path"
    /\ solver = NoSolver
    /\ first # None
    /\ first[1].between
    /\ first[1].x = call.x
    /\ call.ret = first[1].ret
    /\ call.ret[1] > 0
    /\ \E x \in DesignVectors : compute_path(self, 0, x).E_total_J # call.ret[1]

\* C7 (Spec): for a sample count N >= 2, the first point bezier_curve returns
\* is the first control point and the last is the last control point, exactly;
\* so an evaluated path starts at the start point and ends at the end point.
C7_PathEndpoints ==
    (call.op = "compute_path" /\ ~call.raised /\ self.num_points >= 2) =>
        LET control_points == ControlPoints(self, call.x)
            points == bezier_curve(control_points, self.num_points)
        IN  /\ Len(points) = self.num_points
            /\ points[1] = control_points[1]
            /\ points[self.num_points] = control_points[4]
            /\ call.ret[3][1] = self.start_point
            /\ call.ret[3][Len(call.ret[3])] = self.end_point

\* C7's case: a path of three samples or more between two different points,
\* whose inner samples lie off both, starts and ends on them
C7_Witness ==
    /\ call.op = "compute_path"
    /\ self.num_points >= 3
    /\ self.start_point # self.end_point
    /\ call.ret[3][2] \notin {self.start_point, self.end_point}
    /\ call.ret[3][1] = self.start_point
    /\ call.ret[3][self.num_points] = self.end_point

\* C8 (Spec): each constraint is >= 0 exactly when its quantity is within its
\* threshold: constraint_battery(x) >= 0 iff energy_J(x) / 3600 <= 0.80 *
\* battery_capacity_Wh, and is 0 at equality; constraint_motor_power(x) >= 0 iff
\* the peak power of x <= motor_power_limit_W; constraint_time(x) >= 0 iff the
\* total time of x <= max_time.  (A comparison with nan is false.)
C8_ConstraintSigns ==
    LET Ge(a, b) == IsNum(a) /\ IsNum(b) /\ a >= b
        Le(a, b) == IsNum(a) /\ IsNum(b) /\ a <= b
        r == compute_path(self, 0, call.x)
        energy_Wh == DivInt(r.E_total_J, 3600)
        reserve == MulNum(800, self.battery_capacity_Wh)
    IN  /\ call.op = "constraint_battery" =>
              /\ ~call.raised
              /\ Ge(call.ret[1], 0) <=> Le(energy_Wh, reserve)
              /\ (call.ret[1] = 0) <=> (energy_Wh = reserve)
        /\ call.op = "constraint_motor_power" =>
              /\ ~call.raised
              /\ Ge(call.ret[1], 0) <=> Le(r.max_power_encountered, self.motor_power_limit_W)
              /\ (call.ret[1] = 0) <=> (r.max_power_encountered = self.motor_power_limit_W)
        /\ call.op = "constraint_time" =>
              /\ ~call.raised
              /\ Ge(call.ret[1], 0) <=> Le(r.time_total, self.max_time)
              /\ (call.ret[1] = 0) <=> (r.time_total = self.max_time)

\* C8's case: constraint_battery returns 0 for a path whose energy is exactly
\* 80 % of the battery
C8_Witness ==
    /\ call.op = "constraint_battery"
    /\ call.ret = <<0>>
    /\ LET r == compute_path(self, 0, call.x)
       IN  /\ r.E_total_J > 0
           /\ DivInt(r.E_total_J, 3600) = MulNum(800, self.battery_capacity_Wh)

C10_EvaluatedExactlyOnce ==
    (out.returned /\ out.success) =>
        LET r == compute_path(self, 0, out.x[1])
        IN  /\ out.path_evaluations = 1
            /\ out.ret[1][1].x = out.x[1]
            /\ out.ret[2] = Some(r.time_total)
            /\ out.ret[3] = Some(DivInt(r.E_total_J, 3600))
            /\ out.ret[4] = Some(r.path_points)

\* C10 (Spec), amended: on solver success, optimize_mission evaluates the path
\* at the returned design vector after the solver returned, once when VERBOSE
\* is off and four times when it is on (the report's three constraint margins
\* each evaluate it again), and returns the time, energy (Joules / 3600) and
\* path of an evaluation of the returned design vector.
C10_ReportOfReturnedVector ==
    (out.returned /\ out.success) =>
        LET r == compute_path(self, 0, out.x[1])
        IN  /\ out.path_evaluations = IF self.VERBOSE THEN 4 ELSE 1
            /\ out.ret[1][1].x = out.x[1]
            /\ out.ret[2] = Some(r.time_total)
            /\ out.ret[3] = Some(DivInt(r.E_total_J, 3600))
            /\ out.ret[4] = Some(r.path_points)

\* C10's case: a verbose optimizer's solve, in which the solver last evaluated
\* another design vector, succeeds and returns a positive energy
C10_Witness ==
    /\ out.returned
    /\ out.success
    /\ self.VERBOSE
    /\ out.path_evaluations = 4
    /\ solver.callbacks > 0
    /\ call.op # "none"
    /\ call.x # out.x[1]
    /\ out.ret[3][1] > 0

\* C11 (Spec): whenever optimize_mission reports success, the returned
\* solution is feasible (time <= max_time, energy in Wh <= 0.80 * battery
\* capacity, peak power <= motor power limit) and its energy is strictly less
\* than that of the straight path evaluated with the same two speeds.
C11_SuccessIsFeasibleAndBetter ==
    (out.returned /\ out.success) =>
        LET Le(a, b) == IsNum(a) /\ IsNum(b) /\ a <= b
            Lt(a, b) == IsNum(a) /\ IsNum(b) /\ a < b
            r == compute_path(self, 0, out.x[1])
            line == PathOf(self, StraightLine(self, out.x[1]))
            straight == Loop(line.segs, 1, StartAccumulators(0))
        IN  /\ Le(out.ret[2][1], self.max_time)
            /\ Le(out.ret[3][1], MulNum(800, self.battery_capacity_Wh))
            /\ Le(r.max_power_encountered, self.motor_power_limit_W)
            /\ Lt(r.E_total_J, straight.E_total_J)

\* C12 (SpecPath): for the straight-line design vector (free control points on
\* the start and end points) flown at one speed v > 0, compute_path returns a
\* total time within 1/N of |end - start| / v, for every sample count N >= 2.
C12_StraightLineTime ==
    (/\ call.op = "compute_path"
     /\ ~call.raised
     /\ call.x = StraightLine(self, call.x)
     /\ call.x[1] = call.x[2]
     /\ call.x[1] > 0
     /\ self.num_points >= 2) =>
        LET d == [k \in 1..3 |-> self.end_point[k] - self.start_point[k]]
            length == 10 * Isqrt(d[1] * d[1] + d[2] * d[2] + d[3] * d[3])
            ideal == DivNum(length, call.x[1])
            time == call.ret[2]
        IN  /\ IsNum(time)
            /\ Abs(time - ideal) * self.num_points <= ideal

\* C12's case: a straight line of three samples or more between two different
\* points, flown at 20 m/s, takes the line's length over the speed (to 1 ms)
C12_Witness ==
    /\ call.op = "compute_path"
    /\ call.x = StraightLine(self, <<20000, 20000>>)
    /\ self.num_points >= 3
    /\ self.start_point # self.end_point
    /\ call.ret[2] > 0
    /\ Abs(call.ret[2] - DivNum(Distance(self.start_point, self.end_point), 20000)) <= 1

\* C13 (SpecPath): every division of an evaluation is guarded: in every loop
\* pass the segment time dt, the denominator of the ground velocity, is not
\* zero, and neither is the interpolated speed dt was divided by.
C13_DivisionsGuarded ==
    (ev.last # None) =>
        /\ ev.last[1].speed_local # 0
        /\ ev.last[1].dt # 0

C16_ClimbAsymmetry ==
    (call.op = "power_required" /\ ~call.raised) =>
        LET q == call.x
            vz_air == q[3] - get_wind_at_point(self.wind_field, q[4])[3]
            level == power_required(self, q[1], q[2], q[3] - vz_air, q[4])
            climb == DivNum(DivNum(MulNum(MulNum(self.mass, self.g), vz_air),
                                   self.figure_of_merit),
                            self.motor_efficiency)
            P == call.ret[1]
        IN  /\ IsNum(P)
            /\ IsNum(level)
            /\ (vz_air <= 0) => P = level
            /\ (vz_air > 0) => /\ P > level
                               /\ Abs(P - level - climb) <= 2

\* C16's case: the power asked for a climb at 5 m/s in forward flight, above
\* the power of level flight at the same horizontal velocity and position
C16_Witness ==
    /\ call.op = "power_required"
    /\ call.x[1] = 15000
    /\ call.x[3] = 5000
    /\ call.ret # None
    /\ call.ret[1] >= power_required(self, 15000, 0, 0, call.x[4]) + 100000

\* C17 (Spec): battery_efficiency influences no result: what compute_path, the
\* objective and the three constraints return for a design vector is what an
\* optimizer differing in battery_efficiency alone returns for it (power
\* model, path, energy, time and margins recomputed on that optimizer).
C17_BatteryEfficiencyUnused ==
    (call.op \in {"compute_path", "objective_function", "constraint_battery",
                  "constraint_motor_power", "constraint_time"}) =>
        \A efficiency \in {500, 1000} :
            LET twin == [self EXCEPT !.battery_efficiency = efficiency]
                p == PathOf(twin, call.x)
                r == IF p.raised THEN [StartAccumulators(0) EXCEPT !.raised = TRUE]
                     ELSE Loop(p.segs, 1, StartAccumulators(0))
                value ==
                    CASE call.op = "compute_path" ->
                            <<r.E_total_J, r.time_total, p.path_points>>
                      [] call.op = "objective_function" -> <<r.E_total_J>>
                      [] call.op = "constraint_battery" ->
                            <<BatteryMargin(twin, r.E_total_J)>>
                      [] call.op = "constraint_motor_power" ->
                            <<PowerMargin(twin, r.max_power_encountered)>>
                      [] call.op = "constraint_time" ->
                            <<TimeMargin(twin, r.time_total)>>
            IN  /\ twin # self
                /\ call.raised = r.raised
                /\ ~call.raised => call.ret = value

\* C17's case: the battery margin of a path with a positive energy, returned by
\* an optimizer whose battery_efficiency is below 1
C17_Witness ==
    /\ call.op = "constraint_battery"
    /\ ~call.raised
    /\ IsNum(call.ret[1])
    /\ self.battery_efficiency \in 1..999
    /\ call.ret[1] < MulNum(self.battery_capacity_Wh, safety_factor)

\* C18 (SpecSetup): the problem optimize_mission hands to minimize is well-posed
\* for every start/end pair: each of the eight bounds has lower <= upper, and
\* each component of the initial guess lies within its bound.
C18_WellPosed ==
    (solver.minimize_calls > 0) =>
        LET x0 == solver.x0[1]
            bounds == solver.bounds[1]
        IN  \A i \in 1..8 :
                /\ bounds[i][1] <= bounds[i][2]
                /\ bounds[i][1] <= x0[i]
                /\ x0[i] <= bounds[i][2]

\* C19 (SpecPath): when the start and end altitudes are >= 0 and the two free
\* control points of the design vector lie within the solver bounds, each of
\* the N sampled points lies, on every axis, between the least and the
\* greatest of the four control points, and has z >= 0: the loop never asks
\* for the wind at a negative altitude.
C19_PathInsideControlBox ==
    (call.op = "compute_path" /\ ~call.raised) =>
        LET x == call.x
            P == <<self.start_point, <<x[3], x[4], x[5]>>, <<x[6], x[7], x[8]>>,
                   self.end_point>>
            points == call.ret[3]
            bounds == Bounds(self)
            least(d) == CHOOSE v \in {P[c][d] : c \in 1..4} :
                            \A c \in 1..4 : v <= P[c][d]
            greatest(d) == CHOOSE v \in {P[c][d] : c \in 1..4} :
                            \A c \in 1..4 : v >= P[c][d]
        IN  (/\ self.start_point[3] >= 0
             /\ self.end_point[3] >= 0
             /\ \A i \in 3..8 : bounds[i][1] <= x[i] /\ x[i] <= bounds[i][2]) =>
                /\ Len(points) = self.num_points
                /\ \A k \in 1..Len(points) :
                        /\ points[k][3] >= 0
                        /\ \A d \in 1..3 : /\ least(d) <= points[k][d]
                                             /\ points[k][d] <= greatest(d)

\* C19's case: a path of three samples or more over control points raised
\* within the bounds, whose second sample lies above both the start and the
\* end point and below the control points
C19_Witness ==
    /\ call.op = "compute_path"
    /\ ~call.raised
    /\ self.num_points >= 3
    /\ \A i \in 3..8 : Bounds(self)[i][1] <= call.x[i] /\ call.x[i] <= Bounds(self)[i][2]
    /\ call.ret[3][2][3] > self.start_point[3]
    /\ call.ret[3][2][3] > self.end_point[3]
    /\ call.ret[3][2][3] < call.x[5]

\* C20 (SpecPath): across the loop of compute_path the running energy, the
\* running time and the running peak power never decrease and are each >= 0
\* after every pass, and on return total energy <= peak power * total time.
C20_AccumulatorInvariant ==
    LET AtLeast(a, b) == IsNum(a) /\ IsNum(b) /\ a >= b
    IN  /\ (ev.last # None) =>
                /\ AtLeast(ev.E_total_J, ev.last[1].E_total_J)
                /\ AtLeast(ev.time_total, ev.last[1].time_total)
                /\ AtLeast(max_power_encountered, ev.last[1].max_power_encountered)
                /\ AtLeast(ev.E_total_J, 0)
                /\ AtLeast(ev.time_total, 0)
                /\ AtLeast(max_power_encountered, 0)
        /\ (call.op = "compute_path" /\ ~call.raised /\ ev.pc = "ready") =>
                AtLeast(Mul(max_power_encountered, call.ret[2]), call.ret[1])

====
